---- MODULE Spec2Model ----
(***************************************************************************)
(* Model of MCPClient (src/src/client.ts): a wrapper around the protocol   *)
(* SDK's Client and its stdio / SSE transports.                            *)
(*                                                                         *)
(* The wrapper's own state is the fields of the class: config,             *)
(* transportType, connected and transport.  Every async method is split    *)
(* at its await: the part up to the await is one action, the continuation  *)
(* after the awaited SDK promise resolves is a second action and the catch *)
(* path taken when it rejects is a third.  The SDK client and the server   *)
(* are the environment: which transports are open, which transport the SDK *)
(* client is bound to, which requests are outstanding, and the moment and  *)
(* outcome of every awaited promise are chosen nondeterministically.       *)
(***************************************************************************)
EXTENDS Integers, FiniteSets, Sequences, TLC

\* ------------------------------------------------------------------ bounds
MaxCalls == 4           \* calls of public methods made on the client in one run

\* every connect() creates at most one transport, every typed operation at
\* most one request
TransportIds == 1..MaxCalls
ReqIds       == 1..MaxCalls
NoTransport  == 0       \* this.transport = null / the SDK client has no transport

\* --------------------------------------------------------------- constants
DefaultTimeout == 30000

\* ------------------------------------------------------------------ inputs
Undefined == "undefined"
\* values a string option of the config can take: absent, empty, set
CommandValues == {Undefined, "", "npx"}
SseUrlValues  == {Undefined, "", "http://localhost:3000/mcp"}
\* the timeout option: absent (<< >>) or given (<< ms >>)
TimeoutValues == {<< >>, <<100>>}

AllConfigs == [command : CommandValues, sseUrl : SseUrlValues, timeout : TimeoutValues]

\* the configurations the client is constructed with
Configs ==
    {cfg \in AllConfigs :
        \/ cfg.command = "npx" /\ cfg.sseUrl = Undefined /\ cfg.timeout = << >>
        \/ cfg.command = Undefined /\ cfg.sseUrl # Undefined /\ cfg.timeout = <<100>>
        \/ cfg.command = "npx" /\ cfg.sseUrl # Undefined /\ cfg.sseUrl # "" /\ cfg.timeout = << >>
        \/ cfg.command = "" /\ cfg.sseUrl = "" /\ cfg.timeout = << >>}

\* the six typed operations
Ops == {"listTools", "callTool", "listResources", "readResource",
        "listPrompts", "getPrompt"}

CapNames == {"tools", "resources", "prompts"}
\* what client.getServerCapabilities() returns after a handshake: undefined,
\* or an object in which each capability is present or absent
AdvertisedSets == {{"tools"}, {"resources"}, CapNames}
ServerCapValues == {[defined |-> FALSE, adv |-> {}]}
                     \cup {[defined |-> TRUE, adv |-> a] : a \in AdvertisedSets}
NoServerCaps == [defined |-> FALSE, adv |-> {}]

\* entries of the contents of a resources/read response: one carrying the
\* resource as text, one carrying it as base64 data
TextEntry == [uri |-> "file:///doc", text |-> "hello"]
BlobEntry == [uri |-> "file:///doc", blob |-> "aGVsbG8="]
\* the contents lists the server answers readResource with
ContentLists == {<< >>, <<TextEntry>>, <<BlobEntry>>,
                 <<TextEntry, BlobEntry>>, <<BlobEntry, TextEntry>>}

NoFlags == [tools |-> FALSE, resources |-> FALSE, prompts |-> FALSE]

VARIABLES
    config,         \* this.config as given to the constructor
    transportType,  \* this.transportType, or "ConfigurationError" if the constructor threw
    connected,      \* this.connected
    transport,      \* this.transport: NoTransport (null) or the id of the last transport created
    transportKind,  \* the class of the object in this.transport: "none", "stdio" or "sse"
    connecting,     \* transports whose connect() call is awaiting client.connect(transport)
    closing,        \* the disconnect() calls awaiting client.close(), in call order; each
                    \* entry tells whether the call directly followed a completed disconnect()
    sdkTransport,   \* the transport the SDK client is bound to, or NoTransport
    open,           \* transports whose connection / child process is live
    serverCaps,     \* the capabilities the SDK client stored at the last handshake
    requests,       \* outstanding requests handed to the SDK client
    last,           \* outcome of the most recent step of a public method
    calls,          \* number of calls of public methods made so far
    settled         \* requests whose promise was settled by the most recent step

vars == <<config, transportType, connected, transport, transportKind, connecting, closing,
          sdkTransport, open, serverCaps, requests, last, settled, calls>>

\* ------------------------------------------------------------ pure helpers
\* JavaScript truthiness of an optional string
Truthy(s) == s # Undefined /\ s # ""

\* constructor: { timeout: 30000, debug: false, ...config }
MergedTimeout(cfg) == IF cfg.timeout = << >> THEN DefaultTimeout ELSE cfg.timeout[1]

\* the constructor testing command before sseUrl
ResolveTransportType_CommandFirst(cfg) ==
    IF Truthy(cfg.command) THEN "stdio"
    ELSE IF Truthy(cfg.sseUrl) THEN "sse"
    ELSE "ConfigurationError"

\* constructor: determine the transport type, or throw
ResolveTransportType(cfg) ==
    IF Truthy(cfg.sseUrl) THEN "sse"
    ELSE IF Truthy(cfg.command) THEN "stdio"
    ELSE "ConfigurationError"

\* connect(): the flags computed from client.getServerCapabilities()
CapabilityFlags(caps) ==
    [tools     |-> caps.defined /\ "tools" \in caps.adv,
     resources |-> caps.defined /\ "resources" \in caps.adv,
     prompts   |-> caps.defined /\ "prompts" \in caps.adv]

FreeReq == [state |-> "free", op |-> "none", timeout |-> << >>, doomed |-> FALSE]

Outstanding == {r \in ReqIds : requests[r].state = "pending"}

Result(op, result) == [op |-> op, result |-> result, caps |-> NoFlags]

Constructed == transportType # "ConfigurationError"

\* -------------------------------------------------------------------- Init
Init ==
    /\ config \in Configs
    /\ transportType = ResolveTransportType(config)
    /\ connected = FALSE
    /\ transport = NoTransport
    /\ transportKind = "none"
    /\ connecting = {}
    /\ closing = << >>
    /\ sdkTransport = NoTransport
    /\ open = {}
    /\ serverCaps = NoServerCaps
    /\ requests = [r \in ReqIds |-> FreeReq]
    /\ last = Result("constructor", IF ResolveTransportType(config) = "ConfigurationError"
                                     THEN "ConfigurationError" ELSE "ok")
    /\ settled = {}
    /\ calls = 0

\* ----------------------------------------------------------------- helpers
\* ensureConnected() without its test of the flag
ensureConnected_NoCheck == TRUE

\* ensureConnected(): TRUE iff it returns normally (it throws otherwise)
ensureConnected == connected

\* isConnected()
isConnected == connected

\* connect() without its guard
AlreadyConnected_NoGuard == FALSE

\* connect(): the guard `if (this.connected) throw new Error('Already connected')`
AlreadyConnected == connected

\* connect(): the transport class instantiated for the resolved type
NewTransportKind == IF transportType = "stdio" THEN "stdio" ELSE "sse"

\* ids the next `new StdioClientTransport / new SSEClientTransport` can take
FreshTransports == TransportIds \ (open \cup connecting)
NewTransport == CHOOSE t \in FreshTransports : \A u \in FreshTransports : t <= u

\* the sequence s without its i-th element
Remove(s, i) == SubSeq(s, 1, i - 1) \o SubSeq(s, i + 1, Len(s))

FreeIds == {r \in ReqIds : requests[r].state = "free"}
NewReq == CHOOSE r \in FreeIds : \A q \in FreeIds : r <= q

\* what the promise of request r is settled with: the operation's result, the
\* contents the server sent (readResource only) and the text returned
Settled(r, result, contents, value) ==
    [req |-> r, op |-> requests[r].op, result |-> result,
     contents |-> contents, value |-> value]

\* the SDK client rejects every outstanding request when its transport closes
RejectAll(result) ==
    {Settled(r, result, << >>, << >>) : r \in Outstanding}

\* readResource() after the await: the text of the first entry, or a throw
ReadResourceResult(r, contents) ==
    IF Len(contents) > 0 /\ "text" \in DOMAIN contents[1]
    THEN Settled(r, "ok", contents, <<contents[1].text>>)
    ELSE Settled(r, "UnsupportedContentError", contents, << >>)

\* ----------------------------------------------------------------- connect
\* connect() up to `await this.client.connect(this.transport)`
ConnectCall ==
    /\ Constructed
    /\ calls < MaxCalls
    /\ calls' = calls + 1
    /\ IF AlreadyConnected
       THEN /\ last' = Result("connect", "AlreadyConnectedError")
            /\ UNCHANGED <<transport, transportKind, connecting, sdkTransport>>
       ELSE /\ FreshTransports # {}
            /\ transport' = NewTransport
            /\ transportKind' = NewTransportKind
            /\ connecting' = connecting \cup {NewTransport}
            /\ sdkTransport' = NewTransport
            /\ last' = Result("connect", "awaiting")
    /\ settled' = {}
    /\ UNCHANGED <<config, transportType, connected, closing, open, serverCaps, requests>>

\* connect() after the await, without `this.connected = true`
ConnectResolve_NoFlag(t) ==
    /\ UNCHANGED <<calls, transportKind>>
    /\ t \in connecting
    /\ connecting' = connecting \ {t}
    /\ open' = open \cup {t}
    /\ \E caps \in ServerCapValues :
          /\ serverCaps' = caps
          /\ last' = [op |-> "connect", result |-> "ok", caps |-> CapabilityFlags(caps)]
    /\ settled' = {}
    /\ UNCHANGED <<config, transportType, connected, transport, closing, sdkTransport,
                   requests>>

\* the handshake of transport t succeeded: connect() after the await
ConnectResolve(t) ==
    /\ UNCHANGED <<calls, transportKind>>
    /\ t \in connecting
    /\ connecting' = connecting \ {t}
    /\ open' = open \cup {t}
    /\ connected' = TRUE
    /\ \E caps \in ServerCapValues :
          /\ serverCaps' = caps
          /\ last' = [op |-> "connect", result |-> "ok", caps |-> CapabilityFlags(caps)]
    /\ settled' = {}
    /\ UNCHANGED <<config, transportType, transport, closing, sdkTransport, requests>>

\* opening transport t or its handshake failed or timed out: the catch of connect()
ConnectReject(t) ==
    /\ UNCHANGED <<calls, transportKind>>
    /\ t \in connecting
    /\ connecting' = connecting \ {t}
    /\ connected' = FALSE
    /\ sdkTransport' = IF sdkTransport = t THEN NoTransport ELSE sdkTransport
    /\ last' = Result("connect", "ConnectionError")
    /\ settled' = {}
    /\ UNCHANGED <<config, transportType, transport, closing, open, serverCaps, requests>>

\* -------------------------------------------------------------- disconnect
\* disconnect() up to `await this.client.close()`
DisconnectCall ==
    /\ Constructed
    /\ UNCHANGED transportKind
    /\ calls < MaxCalls
    /\ calls' = calls + 1
    /\ IF ~connected
       THEN /\ last' = Result("disconnect", "ok")
            /\ UNCHANGED <<closing, requests>>
       ELSE /\ closing' = Append(closing, last.op = "disconnect" /\ last.result # "awaiting")
            /\ requests' = [r \in ReqIds |->
                              IF requests[r].state = "pending"
                              THEN [requests[r] EXCEPT !.doomed = TRUE]
                              ELSE requests[r]]
            /\ last' = Result("disconnect", "awaiting")
    /\ settled' = {}
    /\ UNCHANGED <<config, transportType, connected, transport, connecting,
                   sdkTransport, open, serverCaps>>

\* client.close() completed: disconnect() after the await
DisconnectResolve(i) ==
    /\ UNCHANGED <<calls, transportKind>>
    /\ i \in DOMAIN closing
    /\ closing' = Remove(closing, i)
    /\ connected' = FALSE
    /\ open' = open \ {sdkTransport}
    /\ sdkTransport' = NoTransport
    /\ settled' = IF sdkTransport # NoTransport THEN RejectAll("SessionClosedError") ELSE {}
    /\ requests' = IF sdkTransport # NoTransport
                   THEN [r \in ReqIds |-> FreeReq] ELSE requests
    /\ last' = Result("disconnect", "ok")
    /\ UNCHANGED <<config, transportType, transport, connecting, serverCaps>>

\* client.close() raised: the catch of disconnect()
DisconnectReject(i) ==
    /\ UNCHANGED <<calls, transportKind>>
    /\ i \in DOMAIN closing
    /\ closing' = Remove(closing, i)
    /\ last' = Result("disconnect", "DisconnectError")
    /\ settled' = {}
    /\ UNCHANGED <<config, transportType, connected, transport, connecting,
                   sdkTransport, open, serverCaps, requests>>

\* -------------------------------------------------------- typed operations
\* listTools / callTool / listResources / readResource / listPrompts /
\* getPrompt up to the await of the SDK call
TypedOp(op) ==
    /\ Constructed
    /\ UNCHANGED transportKind
    /\ calls < MaxCalls
    /\ calls' = calls + 1
    /\ IF ~ensureConnected
       THEN /\ last' = Result(op, "NotConnectedError")
            /\ UNCHANGED requests
       ELSE IF sdkTransport = NoTransport
       THEN \* the SDK client has no transport: its request() rejects at once
            /\ last' = Result(op, "SdkNotConnected")
            /\ UNCHANGED requests
       ELSE /\ FreeIds # {}
            /\ requests' = [requests EXCEPT ![NewReq] =
                              [state |-> "pending", op |-> op,
                               timeout |-> << >>, doomed |-> FALSE]]
            /\ last' = Result(op, "sent")
    /\ settled' = {}
    /\ UNCHANGED <<config, transportType, connected, transport, connecting, closing,
                   sdkTransport, open, serverCaps>>

\* the response to request r arrives: the typed operation returns
Respond(r) ==
    /\ UNCHANGED <<calls, transportKind>>
    /\ requests[r].state = "pending"
    /\ sdkTransport \in open
    /\ requests' = [requests EXCEPT ![r] = FreeReq]
    /\ IF requests[r].op = "readResource"
       THEN \E contents \in ContentLists : settled' = {ReadResourceResult(r, contents)}
       ELSE settled' = {Settled(r, "ok", << >>, << >>)}
    /\ UNCHANGED <<config, transportType, connected, transport, connecting, closing,
                   sdkTransport, open, serverCaps, last>>

\* the SDK's timer of request r fires: the typed operation throws
RequestTimeout(r) ==
    /\ UNCHANGED <<calls, transportKind>>
    /\ requests[r].state = "pending"
    /\ requests' = [requests EXCEPT ![r] = FreeReq]
    /\ settled' = {Settled(r, "RequestTimeoutError", << >>, << >>)}
    /\ UNCHANGED <<config, transportType, connected, transport, connecting, closing,
                   sdkTransport, open, serverCaps, last>>

\* ------------------------------------------------------------- environment
\* the child process of transport t exits or its event stream ends; the
\* wrapper registers no handler, so none of its fields changes
TransportFailure(t) ==
    /\ UNCHANGED <<calls, transportKind>>
    /\ t \in open
    /\ open' = open \ {t}
    /\ sdkTransport' = IF sdkTransport = t THEN NoTransport ELSE sdkTransport
    /\ settled' = IF sdkTransport = t THEN RejectAll("SessionClosedError") ELSE {}
    /\ requests' = IF sdkTransport = t THEN [r \in ReqIds |-> FreeReq] ELSE requests
    /\ last' = Result("transport", "failed")
    /\ UNCHANGED <<config, transportType, connected, transport, connecting, closing,
                   serverCaps>>

Next ==
    \/ ConnectCall
    \/ \E t \in TransportIds : ConnectResolve(t)
    \/ \E t \in TransportIds : ConnectReject(t)
    \/ DisconnectCall
    \/ \E i \in 1..MaxCalls : DisconnectResolve(i)
    \/ \E i \in 1..MaxCalls : DisconnectReject(i)
    \/ \E op \in Ops : TypedOp(op)
    \/ \E r \in ReqIds : Respond(r)
    \/ \E r \in ReqIds : RequestTimeout(r)
    \/ \E t \in TransportIds : TransportFailure(t)

Spec == Init /\ [][Next]_vars

\* ------------------------------------------------ connection life cycle
\* the client constructed with any configuration
InitAllConfigs ==
    /\ config \in AllConfigs
    /\ transportType = ResolveTransportType(config)
    /\ connected = FALSE
    /\ transport = NoTransport
    /\ transportKind = "none"
    /\ connecting = {}
    /\ closing = << >>
    /\ sdkTransport = NoTransport
    /\ open = {}
    /\ serverCaps = NoServerCaps
    /\ requests = [r \in ReqIds |-> FreeReq]
    /\ last = Result("constructor", IF ResolveTransportType(config) = "ConfigurationError"
                                     THEN "ConfigurationError" ELSE "ok")
    /\ settled = {}
    /\ calls = 0

\* any sequence of connect() and disconnect() calls
NextLifecycle ==
    \/ ConnectCall
    \/ \E t \in TransportIds : ConnectResolve(t)
    \/ \E t \in TransportIds : ConnectReject(t)
    \/ DisconnectCall
    \/ \E i \in 1..MaxCalls : DisconnectResolve(i)
    \/ \E i \in 1..MaxCalls : DisconnectReject(i)
    \/ \E t \in TransportIds : TransportFailure(t)

SpecLifecycle == InitAllConfigs /\ [][NextLifecycle]_vars

\* ------------------------------------------------------------------ status
\* the session status of the specification, read off the calls in progress
Status ==
    IF closing # << >> THEN "Closing"
    ELSE IF connected THEN "Connected"
    ELSE IF connecting # {} THEN "Connecting"
    ELSE "Disconnected"

\* the fields of the wrapper and of the SDK client that make up the connection
Connection == <<connected, transport, connecting, closing, sdkTransport, open>>

\* ------------------------------------------------------------------ claims
\* C1: while the connected flag is false, each of the six typed operations
\* fails with the not-connected error, hands no request to the SDK client
\* and leaves the connection state as it was.
C1_NotConnectedRejects ==
    [][\A op \in Ops :
          (~isConnected /\ TypedOp(op))
             => /\ last' = Result(op, "NotConnectedError")
                /\ requests' = requests
                /\ Connection' = Connection]_vars

\* C1 witness: a typed operation was refused on a session that had been
\* connected before and is disconnected again, or whose connect() failed.
C1_Witness ==
    /\ last.op \in Ops
    /\ last.result = "NotConnectedError"
    /\ ~connected
    /\ transport # NoTransport
    /\ connecting = {}

\* C2: connect() on a connected session fails with the already-connected
\* error; the session stays connected, no transport is created or opened and
\* the transport handle is not replaced.
C2_ConnectWhileConnected ==
    [][(isConnected /\ ConnectCall)
          => /\ last' = Result("connect", "AlreadyConnectedError")
             /\ connected'
             /\ transport' = transport
             /\ connecting' = connecting
             /\ sdkTransport' = sdkTransport
             /\ open' = open]_vars

\* C2 witness: connect() was refused on a connected session.
C2_Witness ==
    /\ last = Result("connect", "AlreadyConnectedError")
    /\ connected
    /\ transport \in open

\* C3: at most one handshake is in flight at any time.
C3_SingleHandshake == Cardinality(connecting) <= 1

\* C4: a disconnect() call that directly follows a completed disconnect()
\* call raises no error and leaves the session disconnected, and
\* disconnect() on a session that is not connected changes nothing.
C4_DisconnectIdempotent ==
    [][/\ \A i \in DOMAIN closing :
            (closing[i] /\ Len(closing') < Len(closing) /\ closing' = Remove(closing, i))
               => (last' = Result("disconnect", "ok") /\ ~connected')
       /\ (~connected /\ DisconnectCall)
            => (last' = Result("disconnect", "ok")
                  /\ Connection' = Connection /\ requests' = requests)]_vars

\* C5: a request is handed to the SDK client only while the session status
\* is Connected; in particular none is while a disconnect() is in progress.
C5_SendOnlyWhenConnected ==
    [][(\E r \in ReqIds : requests[r].state = "free" /\ requests'[r].state = "pending")
          => Status = "Connected"]_vars

\* C6: when the transport of a connected session fails, the session is
\* disconnected at once: isConnected() is false from then on.
C6_FailureDisconnects ==
    [][(connected /\ sdkTransport \in open /\ TransportFailure(sdkTransport))
          => ~isConnected']_vars

\* C7: a handshake that ends ends in one of two ways.  If it failed, the
\* caller gets a connection error and the connected flag is false, so the
\* next connect() is not refused as already connected; if it succeeded, the
\* session is connected over the transport just opened and the caller gets
\* the flags of the capabilities the server advertised.  A connect() on a
\* session whose flag is false is accepted: it starts a handshake.
C7_ConnectOutcome ==
    [][/\ \A t \in connecting \ connecting' :
            IF t \in open'
            THEN /\ connected'
                 /\ last'.op = "connect" /\ last'.result = "ok"
                 /\ last'.caps.tools = (serverCaps'.defined /\ "tools" \in serverCaps'.adv)
                 /\ last'.caps.resources
                       = (serverCaps'.defined /\ "resources" \in serverCaps'.adv)
                 /\ last'.caps.prompts
                       = (serverCaps'.defined /\ "prompts" \in serverCaps'.adv)
            ELSE /\ ~connected'
                 /\ last' = Result("connect", "ConnectionError")
                 /\ ~AlreadyConnected'
       /\ (~connected /\ ConnectCall)
            => (last' = Result("connect", "awaiting") /\ transport' \in connecting')]_vars

\* C7 witness: a connect() has failed and left the session disconnected.
C7_Witness ==
    /\ last = Result("connect", "ConnectionError")
    /\ ~connected
    /\ connecting = {}
    /\ open = {}

\* C7 second witness: a connect() has succeeded and returned flags that are
\* not all false.
C7_WitnessSuccess ==
    /\ last.op = "connect"
    /\ last.result = "ok"
    /\ connected
    /\ last.caps.tools
    /\ ~last.caps.prompts

\* C8: whenever a disconnect() call made on a connected session ends, by
\* returning or by throwing, the session is disconnected and the transport
\* of the session is no longer open.
C8_DisconnectReleases ==
    [][(Len(closing') < Len(closing))
          => (~connected' /\ sdkTransport \notin open')]_vars

\* C9: a request that was outstanding when disconnect() was called is
\* settled in one way only: it fails with the session-closed error.
C9_PendingFailClosed ==
    [][\A r \in ReqIds :
          (requests[r].state = "pending" /\ requests[r].doomed
              /\ requests'[r].state = "free")
             => Settled(r, "SessionClosedError", << >>, << >>) \in settled']_vars

\* C10: every outstanding request carries the timeout of the configuration.
C10_ConfiguredTimeout ==
    \A r \in Outstanding : requests[r].timeout = <<MergedTimeout(config)>>

\* C4, the part that holds: disconnect() on a session whose flag is false
\* returns at once, raises nothing and closes nothing.
C4_NoOpWhenDisconnected ==
    [][(~connected /\ DisconnectCall)
          => (last' = Result("disconnect", "ok")
                /\ Connection' = Connection /\ requests' = requests)]_vars

\* C10, the part that holds: a request that times out fails alone; the
\* connected flag and every other outstanding request stay as they were.
C10_TimeoutIsLocal ==
    [][\A r \in ReqIds :
          (requests[r].state = "pending"
              /\ settled' = {Settled(r, "RequestTimeoutError", << >>, << >>)})
             => /\ connected' = connected
                /\ \A q \in ReqIds \ {r} : requests'[q] = requests[q]]_vars

\* C11: the constructor resolves the transport kind from the configuration:
\* sseUrl alone gives "sse", command alone gives "stdio", neither (absent or
\* empty) is a configuration error, both give "sse".  The kind never changes
\* afterwards, and every transport connect() creates is of that kind.
C11_TransportKind ==
    /\ [](LET hasUrl == config.sseUrl # Undefined /\ config.sseUrl # ""
              hasCmd == config.command # Undefined /\ config.command # ""
          IN  /\ (hasUrl /\ ~hasCmd) => transportType = "sse"
              /\ (hasCmd /\ ~hasUrl) => transportType = "stdio"
              /\ (~hasCmd /\ ~hasUrl) => (transportType = "ConfigurationError"
                                            /\ transport = NoTransport)
              /\ (hasCmd /\ hasUrl) => transportType = "sse"
              /\ transport # NoTransport => transportKind = transportType)
    /\ [][transportType' = transportType]_vars

\* C11 witness: a client given both command and sseUrl is connected over an
\* event-stream transport after a disconnect and a second connect.
C11_Witness ==
    /\ config.command = "npx"
    /\ config.sseUrl = "http://localhost:3000/mcp"
    /\ connected
    /\ transport \in open
    /\ transportKind = "sse"
    /\ calls >= 3

\* C12: when the response to a readResource arrives on a connected session,
\* the call returns the text of the contents if some entry carries text and
\* fails with the unsupported-content error if the list is empty or no entry
\* carries text; either way the session stays connected.
C12_ReadResourceText ==
    [][\A r \in ReqIds : \A s \in settled' :
          (requests[r].state = "pending" /\ requests[r].op = "readResource"
              /\ s.req = r /\ s.result \notin {"RequestTimeoutError", "SessionClosedError"})
             => LET texts == {s.contents[i].text :
                                i \in {j \in DOMAIN s.contents :
                                          "text" \in DOMAIN s.contents[j]}}
                IN  /\ texts # {} => (s.result = "ok" /\ \E t \in texts : s.value = <<t>>)
                    /\ texts = {} => s.result = "UnsupportedContentError"
                    /\ connected' = connected]_vars

\* C12, the part that holds: the call returns the text of the first entry
\* when that entry carries text, fails with the unsupported-content error
\* otherwise, and leaves the connected flag as it was.
C12_FirstEntryText ==
    [][\A r \in ReqIds : \A s \in settled' :
          (requests[r].state = "pending" /\ requests[r].op = "readResource"
              /\ s.req = r /\ s.result \notin {"RequestTimeoutError", "SessionClosedError"})
             => /\ IF s.contents # << >> /\ "text" \in DOMAIN s.contents[1]
                   THEN s.result = "ok" /\ s.value = <<s.contents[1].text>>
                   ELSE s.result = "UnsupportedContentError"
                /\ connected' = connected]_vars

\* C13: a typed operation is handed to the SDK client as a request only if
\* the handshake of the session advertised its capability (tools for
\* listTools / callTool, resources for listResources / readResource, prompts
\* for listPrompts / getPrompt), and the capabilities of a session do not
\* change while it stays connected.
C13_CapabilityGated ==
    [][LET capOf == [op \in Ops |->
                       IF op \in {"listTools", "callTool"} THEN "tools"
                       ELSE IF op \in {"listResources", "readResource"} THEN "resources"
                       ELSE "prompts"]
       IN  /\ \A r \in ReqIds :
                (requests[r].state = "free" /\ requests'[r].state = "pending")
                   => (serverCaps.defined /\ capOf[requests'[r].op] \in serverCaps.adv)
           /\ (connected /\ connected') => serverCaps' = serverCaps]_vars

\* C14: whenever no connect() or disconnect() call is in progress and
\* isConnected() returns false, no transport opened by the client is open.
C14_FlagNeverUnderReports ==
    (connecting = {} /\ closing = << >> /\ ~isConnected) => open = {}
====
